---- MODULE Spec2Model ----
(***************************************************************************)
(* A model of tssl.py: a wrapper that runs testssl.sh on every target,     *)
(* streams its output, renders it with aha and optionally zips the output  *)
(* directory.                                                              *)
(*                                                                         *)
(* A Python str is a sequence of one-character strings.  The alphabet of   *)
(* the model holds no newline and no glob metacharacter ('*', '?', '['),   *)
(* so '.' of the regular expression matches every character and glob()     *)
(* of "<fileName>*" is a prefix match.                                     *)
(***************************************************************************)
EXTENDS Integers, Sequences, FiniteSets, TLC

(***************************************************************************)
(* Bounds of the model                                                     *)
(***************************************************************************)
MaxLen == 3
MaxLen2 == 2

(***************************************************************************)
(* str helpers                                                             *)
(***************************************************************************)
RECURSIVE RStrip(_, _)
\* str.rstrip(c): every trailing c is removed
RStrip(s, c) ==
    IF s = <<>> \/ s[Len(s)] # c THEN s
    ELSE RStrip(SubSeq(s, 1, Len(s) - 1), c)

RECURSIVE LStrip(_, _)
\* str.lstrip(c)
LStrip(s, c) ==
    IF s = <<>> \/ s[1] # c THEN s
    ELSE LStrip(Tail(s), c)

\* str.strip(): the only whitespace of the alphabet is the space
Strip(s) == LStrip(RStrip(s, " "), " ")

RECURSIVE Replace(_, _, _)
\* str.replace(old, new) for a one-character old; new is a str
Replace(s, old, new) ==
    IF s = <<>> THEN <<>>
    ELSE (IF s[1] = old THEN new ELSE <<s[1]>>) \o Replace(Tail(s), old, new)

\* s.startswith(p)
StartsWith(s, p) == Len(p) <= Len(s) /\ SubSeq(s, 1, Len(p)) = p

(***************************************************************************)
(* Output Namer: runTestssl, lines 283-290                                 *)
(***************************************************************************)
\* the optional scheme group never takes part in the match
ReMatchNoScheme(s) == [ok |-> s # <<>>, g2 |-> s]

\* re.match(r'^(.+?://)?(.+?)$', s): the optional group is tried first and
\* its lazy .+? stops at the first "://" that has a character before it and
\* leaves a non-empty rest for group 2; without such a place group 2 is the
\* whole of a non-empty s; the empty s does not match (None).
ReMatch(s) ==
    LET at == {i \in 1..(Len(s) - 4) :
                  s[i + 1] = ":" /\ s[i + 2] = "/" /\ s[i + 3] = "/"}
        first == CHOOSE i \in at : \A j \in at : i <= j
    IN  IF at # {} THEN [ok |-> TRUE, g2 |-> SubSeq(s, first + 4, Len(s))]
        ELSE IF s # <<>> THEN [ok |-> TRUE, g2 |-> s]
        ELSE [ok |-> FALSE, g2 |-> <<>>]

\* the trailing slashes are left on the target
TargetStripKeepsSlash(target) ==
    LET m == ReMatch(target)
    IN  IF m.ok THEN m.g2 ELSE target

\* lines 283-287: .group(2) of the match on target.rstrip('/'); when there
\* is no match .group raises and the except clause keeps the target as it is
TargetStrip(target) ==
    LET m == ReMatch(RStrip(target, "/"))
    IN  IF m.ok THEN m.g2 ELSE target

\* the colon is dropped like the space
SanitiseDropsColon(s) == Replace(Replace(Replace(s, "/", <<"_">>), " ", <<>>), ":", <<>>)

\* lines 288-289: the three replace calls
Sanitise(s) == Replace(Replace(Replace(s, "/", <<"_">>), " ", <<>>), ":", <<"_">>)

Prefix == <<"/", "t", "e", "s", "t", "s", "s", "l", "_">>

\* lines 288-290: fileName; an empty or absent label is falsy
FileName(outDir, target, label) ==
    LET fileName == outDir \o Prefix \o Sanitise(TargetStrip(target))
    IN  IF label # <<>> THEN fileName \o <<"_">> \o label ELSE fileName

(***************************************************************************)
(* Program state                                                           *)
(***************************************************************************)
VARIABLES
    pc,          \* position of the single thread of control
    argv,        \* the command line, as argparse reads it
    args,        \* the namespace parseArgs returns
    dirState,    \* args.directory on disk: "absent", "dir" or "file"
    cwdIsDir,    \* args.directory.samefile(os.getcwd())
    targetsFile, \* <directory>/targets_testssl.txt
    files,       \* files of <directory>/testssl: name -> who wrote it
    zipFile,     \* <directory>.zip
    todo,        \* targets the for loop has not yet reached
    target,      \* loop variable of runTestssl
    fileName,    \* basename of the current target
    outFiles,    \* list runTestssl returns
    testsslOut,  \* raw output buffer
    attempt,     \* processes spawned for the current target
    chunks,      \* chunks read for the current target
    procAlive,   \* the pexpect child is running
    lastRead,    \* how the last streaming loop ended: "none", "eof", "timeout"
    stdout,      \* command lines printed in command-only mode
    aha,         \* exit status of the last aha process, "none" before the first
    exit         \* exit status and message once pc = "exit"

vars == <<pc, argv, args, dirState, cwdIsDir, targetsFile, files, zipFile,
          todo, target, fileName, outFiles, testsslOut, attempt, chunks,
          procAlive, lastRead, stdout, aha, exit>>

runVars == <<todo, target, fileName, outFiles, testsslOut, attempt, chunks,
             procAlive, lastRead, stdout, aha>>

diskVars == <<dirState, targetsFile, files, zipFile>>

(***************************************************************************)
(* More bounds                                                             *)
(***************************************************************************)
MaxTargets == 2
\* chunks read for one target, over all its attempts
MaxChunks == 2
\* processes spawned for one target
MaxAttempts == 2

(***************************************************************************)
(* Input pools                                                             *)
(***************************************************************************)
Host == <<"a", ".", "e", "x", "a", "m", "p", "l", "e", ".", "c", "o", "m">>
THttps == <<"h", "t", "t", "p", "s", ":", "/", "/">> \o Host \o <<"/">>
TPort == Host \o <<":", "4", "4", "3">>
MainPool == <<THttps, Host, TPort>>

Directory == <<"/", "o">>
Label == <<"L">>

Json == <<".", "j", "s", "o", "n">>
Log == <<".", "l", "o", "g">>
Csv == <<".", "c", "s", "v">>
Html == <<".", "h", "t", "m", "l">>
Sh == <<".", "s", "h">>

\* line 275: outDir = args.directory / "testssl"
OutDir(directory) == directory \o <<"/", "t", "e", "s", "t", "s", "s", "l">>

Range(s) == {s[i] : i \in DOMAIN s}

RECURSIVE Flatten(_)
Flatten(ss) == IF ss = <<>> THEN <<>> ELSE Head(ss) \o Flatten(Tail(ss))

NoExit == [code |-> 0, msg |-> "", what |-> <<>>]
NoArgs == [targets |-> {}, passw |-> ""]
Absent == [state |-> "absent", targets |-> {}]
Old == <<>>
NoFiles == [n \in {} |-> Old]
NoZip == [state |-> "absent", members |-> {}, verified |-> FALSE]

(***************************************************************************)
(* File helpers                                                            *)
(***************************************************************************)
\* glob(f"{prefix}*") over the files of the output directory
Glob(fs, prefix) == {n \in DOMAIN fs : StartsWith(n, prefix)}

\* open(name, 'w') and the write that follows, by `who`
WriteFiles(fs, names, who) ==
    [n \in DOMAIN fs \cup names |-> IF n \in names THEN who ELSE fs[n]]

\* os.remove of every name in names
RemoveFiles(fs, names) == [n \in DOMAIN fs \ names |-> fs[n]]

(***************************************************************************)
(* parseArgs, lines 141-248                                                *)
(***************************************************************************)
Exit(code, msg, what) == [code |-> code, msg |-> msg, what |-> what]

AnyZip(a) == a.zip # "none"

\* the length of sys.argv is not looked at
NoArgumentsIgnored(a) == FALSE

\* line 147: len(sys.argv) == 1
NoArguments(a) ==
    /\ ~a.batch /\ ~a.cmdOnly /\ a.mode = "none" /\ a.zip = "none"
    /\ a.label = <<>> /\ a.urls = <<>> /\ a.files = <<>>
    /\ a.filesNessus = <<>> /\ a.filesXml = <<>>

\* the directory is never taken for the current one
SameFileNever(cwd) == FALSE

\* line 190: args.directory.samefile(os.getcwd())
SameFile(cwd) == cwd

\* lines 165-192: the checks on the output directory and the archive.  The
\* answers are those of yesNo at lines 168, 177, 187; mk is whether
\* os.makedirs succeeds.  [go, exit, dir]: whether parseArgs goes on, the
\* exit it takes otherwise, and the state of the directory afterwards.
DirStage(a, dir, zipState, cwd, ansCreate, ansCompress, ansZip, mk) ==
    LET stop(code, msg, d) == [go |-> FALSE, exit |-> Exit(code, msg, <<>>), dir |-> d]
        archive(d) ==
            IF ~AnyZip(a) THEN [go |-> TRUE, exit |-> NoExit, dir |-> d]
            ELSE IF zipState # "absent" /\ a.mode # "overwrite" /\ a.batch
            THEN stop(1, "Zip archive exists", d)
            ELSE IF zipState # "absent" /\ a.mode # "overwrite" /\ ~ansZip
            THEN stop(0, "", d)
            ELSE IF d = "absent" THEN stop(1, "Traceback: FileNotFoundError", d)
            ELSE IF SameFile(cwd) THEN stop(1, "Cannot zip the current directory", d)
            ELSE [go |-> TRUE, exit |-> NoExit, dir |-> d]
    IN  IF a.cmdOnly THEN archive(dir)
        ELSE IF dir = "absent"
        THEN IF a.batch \/ ansCreate
             THEN IF mk THEN archive("dir")
                  ELSE stop(1, "You do not have permission to write", dir)
             ELSE stop(0, "", dir)
        ELSE IF dir = "file" THEN stop(1, "Output directory is not a directory", dir)
        ELSE IF AnyZip(a) /\ ~a.batch /\ ~ansCompress THEN stop(0, "", dir)
        ELSE archive(dir)

\* lines 225-232: one -fL file; its lines are only inspected
FileListError(f) ==
    IF ~f.exists THEN "Input file does not exist"
    ELSE IF \E i \in DOMAIN f.lines : StartsWith(f.lines[i], <<"<">>)
    THEN "Input file contains invalid targets"
    ELSE ""

\* lines 235-238 and 241-244 with the sys.exit of parseNessus and parseNmap
ReportError(f) ==
    IF ~f.exists THEN "Input file does not exist"
    ELSE IF ~f.ok THEN "Error parsing output file"
    ELSE ""

\* lines 218-244: the list `targets` once every source has been read
TargetList(a) ==
    a.urls \o Flatten([i \in DOMAIN a.filesNessus |-> a.filesNessus[i].targets])
           \o Flatten([i \in DOMAIN a.filesXml |-> a.filesXml[i].targets])

\* lines 218-247: [go, exit, targets]
TargetStage(a) ==
    LET errors == [i \in DOMAIN a.files |-> FileListError(a.files[i])]
                  \o [i \in DOMAIN a.filesNessus |-> ReportError(a.filesNessus[i])]
                  \o [i \in DOMAIN a.filesXml |-> ReportError(a.filesXml[i])]
        bad == {i \in DOMAIN errors : errors[i] # ""}
        first == CHOOSE i \in bad : \A j \in bad : i <= j
        \* line 245: set(filter(None, map(str.strip, targets)))
        targets == {Strip(t) : t \in Range(TargetList(a))} \ {<<>>}
    IN  IF bad # {}
        THEN [go |-> FALSE, exit |-> Exit(1, errors[first], <<>>), targets |-> {}]
        ELSE IF targets = {}
        THEN [go |-> FALSE, exit |-> Exit(1, "No targets detected", <<>>), targets |-> {}]
        ELSE [go |-> TRUE, exit |-> NoExit, targets |-> targets]

ParseArgs ==
    /\ pc = "parseArgs"
    /\ \E ansCreate, ansCompress, ansZip, mk \in BOOLEAN :
         LET d == DirStage(argv, dirState, zipFile.state, cwdIsDir,
                           ansCreate, ansCompress, ansZip, mk)
             t == TargetStage(argv)
         IN  IF NoArguments(argv)
             THEN \* lines 147-149: print_help() and sys.exit()
                  /\ pc' = "exit" /\ exit' = Exit(0, "usage", <<>>)
                  /\ UNCHANGED <<args, dirState>>
             ELSE IF argv.urls = <<>> /\ argv.files = <<>>
                     /\ argv.filesNessus = <<>> /\ argv.filesXml = <<>>
             THEN \* lines 158-161
                  /\ pc' = "exit"
                  /\ exit' = Exit(1, "Please specify at least one target", <<>>)
                  /\ UNCHANGED <<args, dirState>>
             ELSE IF ~d.go
             THEN /\ pc' = "exit" /\ exit' = d.exit /\ dirState' = d.dir
                  /\ UNCHANGED args
             ELSE IF ~t.go
             THEN /\ pc' = "exit" /\ exit' = t.exit /\ dirState' = d.dir
                  /\ UNCHANGED args
             ELSE /\ pc' = "main"
                  /\ dirState' = d.dir
                  /\ args' = [targets |-> t.targets,
                              passw |-> IF argv.zip = "encrypt" THEN "passw" ELSE ""]
                  /\ UNCHANGED exit
    /\ UNCHANGED <<argv, cwdIsDir, targetsFile, files, zipFile>>
    /\ UNCHANGED runVars

(***************************************************************************)
(* main, lines 441-459                                                     *)
(***************************************************************************)
Terminate(code, msg, what) == pc' = "exit" /\ exit' = Exit(code, msg, what)

\* the target list is written in command-only mode too
MainCmdOnlyWrites ==
    /\ pc = "main" /\ argv.cmdOnly
    /\ targetsFile' = [state |-> "new", targets |-> args.targets]
    /\ pc' = "runTestssl"
    /\ UNCHANGED <<argv, args, cwdIsDir, exit, dirState, files, zipFile>>
    /\ UNCHANGED runVars

\* line 446: nothing is done before runTestssl in command-only mode
MainCmdOnly ==
    /\ pc = "main" /\ argv.cmdOnly
    /\ pc' = "runTestssl"
    /\ UNCHANGED <<argv, args, cwdIsDir, exit>>
    /\ UNCHANGED diskVars /\ UNCHANGED runVars

\* lines 448-450
MainTargetListExists ==
    /\ pc = "main" /\ ~argv.cmdOnly
    /\ targetsFile.state # "absent" /\ argv.mode # "overwrite"
    /\ Terminate(1, "Target list already exists", <<>>)
    /\ UNCHANGED <<argv, args, cwdIsDir>>
    /\ UNCHANGED diskVars /\ UNCHANGED runVars

\* the target list is not written
MainSkipsTargetList ==
    /\ pc = "main" /\ ~argv.cmdOnly
    /\ targetsFile.state = "absent" \/ argv.mode = "overwrite"
    /\ pc' = "runTestssl"
    /\ UNCHANGED <<argv, args, cwdIsDir, exit>>
    /\ UNCHANGED diskVars /\ UNCHANGED runVars

\* lines 451-458: "\n".join(args.targets), one target per line
MainWriteTargetList ==
    /\ pc = "main" /\ ~argv.cmdOnly
    /\ targetsFile.state = "absent" \/ argv.mode = "overwrite"
    /\ targetsFile' = [state |-> "new", targets |-> args.targets]
    /\ pc' = "runTestssl"
    /\ UNCHANGED <<argv, args, cwdIsDir, exit, dirState, files, zipFile>>
    /\ UNCHANGED runVars

(***************************************************************************)
(* runTestssl, lines 270-395                                               *)
(***************************************************************************)
\* lines 275-280
RunStart ==
    /\ pc = "runTestssl"
    /\ outFiles' = <<>>
    /\ todo' = args.targets
    /\ pc' = "loop"
    /\ UNCHANGED <<argv, args, cwdIsDir, exit>>
    /\ UNCHANGED diskVars
    /\ UNCHANGED <<target, fileName, testsslOut, attempt, chunks, procAlive,
                   lastRead, stdout, aha>>

\* line 277 with the sys.exit of mkdirs, line 268
RunStartDenied ==
    /\ pc = "runTestssl" /\ ~argv.cmdOnly
    /\ Terminate(1, "You do not have permission to write", <<>>)
    /\ UNCHANGED <<argv, args, cwdIsDir>>
    /\ UNCHANGED diskVars /\ UNCHANGED runVars

\* lines 283-290 for target t
NameOf(t) == FileName(OutDir(argv.directory), t, argv.label)

\* line 291
ExistingOutput(t) == Glob(files, NameOf(t))

\* line 280: the for loop takes the next target of the set, in any order
Take(t) ==
    /\ pc = "loop" /\ t \in todo
    /\ todo' = todo \ {t}
    /\ target' = t
    /\ fileName' = NameOf(t)

\* lines 362-367: the command script is written and the buffer starts empty
StartScan(fs, t) ==
    /\ files' = WriteFiles(fs, {NameOf(t) \o Sh}, t)
    /\ testsslOut' = <<>>
    /\ attempt' = 0
    /\ chunks' = 0
    /\ lastRead' = "none"
    /\ pc' = "spawn"

\* line 292 false, then lines 305-367
NoConflict ==
    \E t \in todo :
        /\ Take(t)
        /\ ~argv.cmdOnly /\ ExistingOutput(t) = {}
        /\ StartScan(files, t)
        /\ UNCHANGED <<argv, args, cwdIsDir, exit, dirState, targetsFile, zipFile>>
        /\ UNCHANGED <<outFiles, procAlive, stdout, aha>>

\* the matching files are left where they are
OverwriteKeeps ==
    \E t \in todo :
        /\ Take(t)
        /\ ~argv.cmdOnly /\ ExistingOutput(t) # {} /\ argv.mode = "overwrite"
        /\ StartScan(files, t)
        /\ UNCHANGED <<argv, args, cwdIsDir, exit, dirState, targetsFile, zipFile>>
        /\ UNCHANGED <<outFiles, procAlive, stdout, aha>>

\* lines 293-296, every os.remove succeeding, then lines 305-367
Overwrite ==
    \E t \in todo :
        /\ Take(t)
        /\ ~argv.cmdOnly /\ ExistingOutput(t) # {} /\ argv.mode = "overwrite"
        /\ StartScan(RemoveFiles(files, ExistingOutput(t)), t)
        /\ UNCHANGED <<argv, args, cwdIsDir, exit, dirState, targetsFile, zipFile>>
        /\ UNCHANGED <<outFiles, procAlive, stdout, aha>>

\* lines 293-298: os.remove fails on f after some of the other matches,
\* in the order glob listed them, were removed
OverwriteFail ==
    \E t \in todo :
        /\ Take(t)
        /\ ~argv.cmdOnly /\ ExistingOutput(t) # {} /\ argv.mode = "overwrite"
        /\ \E f \in ExistingOutput(t) :
             \E removed \in SUBSET (ExistingOutput(t) \ {f}) :
                /\ files' = RemoveFiles(files, removed)
                /\ Terminate(1, "Could not delete file", f)
        /\ UNCHANGED <<argv, args, cwdIsDir, dirState, targetsFile, zipFile>>
        /\ UNCHANGED <<outFiles, testsslOut, attempt, chunks, procAlive,
                       lastRead, stdout, aha>>

\* the skipped target is still reported
SkipReports ==
    \E t \in todo :
        /\ Take(t)
        /\ ~argv.cmdOnly /\ ExistingOutput(t) # {} /\ argv.mode = "skip"
        /\ outFiles' = Append(outFiles, NameOf(t))
        /\ pc' = "loop"
        /\ UNCHANGED <<argv, args, cwdIsDir, exit>>
        /\ UNCHANGED diskVars
        /\ UNCHANGED <<testsslOut, attempt, chunks, procAlive, lastRead, stdout, aha>>

\* lines 299-300
Skip ==
    \E t \in todo :
        /\ Take(t)
        /\ ~argv.cmdOnly /\ ExistingOutput(t) # {} /\ argv.mode = "skip"
        /\ pc' = "loop"
        /\ UNCHANGED <<argv, args, cwdIsDir, exit>>
        /\ UNCHANGED diskVars
        /\ UNCHANGED <<outFiles, testsslOut, attempt, chunks, procAlive,
                       lastRead, stdout, aha>>

\* the conflict is passed over and the loop goes on
AbortContinues ==
    \E t \in todo :
        /\ Take(t)
        /\ ~argv.cmdOnly /\ ExistingOutput(t) # {} /\ argv.mode = "none"
        /\ pc' = "loop"
        /\ UNCHANGED <<argv, args, cwdIsDir, exit>>
        /\ UNCHANGED diskVars
        /\ UNCHANGED <<outFiles, testsslOut, attempt, chunks, procAlive,
                       lastRead, stdout, aha>>

\* lines 301-304
Abort ==
    \E t \in todo :
        /\ Take(t)
        /\ ~argv.cmdOnly /\ ExistingOutput(t) # {} /\ argv.mode = "none"
        /\ Terminate(1, "Output files already exist", t)
        /\ UNCHANGED <<argv, args, cwdIsDir>>
        /\ UNCHANGED diskVars
        /\ UNCHANGED <<outFiles, testsslOut, attempt, chunks, procAlive,
                       lastRead, stdout, aha>>

\* lines 359-361: the command line, which names the target and the basename
PrintCmd ==
    \E t \in todo :
        /\ Take(t)
        /\ argv.cmdOnly
        /\ stdout' = Append(stdout, [target |-> t, fileName |-> NameOf(t)])
        /\ pc' = "loop"
        /\ UNCHANGED <<argv, args, cwdIsDir, exit>>
        /\ UNCHANGED diskVars
        /\ UNCHANGED <<outFiles, testsslOut, attempt, chunks, procAlive, lastRead,
                       aha>>

\* the report files testssl writes as a side effect (-oJ, -oL, -oC, lines 306-307)
ReportFiles(fn) == {fn \o Json, fn \o Log, fn \o Csv}

\* lines 369-370
Spawn ==
    /\ pc = "spawn"
    /\ procAlive' = TRUE
    /\ attempt' = attempt + 1
    /\ files' = WriteFiles(files, ReportFiles(fileName), target)
    /\ pc' = "read"
    /\ UNCHANGED <<argv, args, cwdIsDir, exit, dirState, targetsFile, zipFile>>
    /\ UNCHANGED <<todo, target, fileName, outFiles, testsslOut, chunks,
                   lastRead, stdout, aha>>

\* line 369: pexpect.spawn raises when the executable is not found
SpawnFail ==
    /\ pc = "spawn"
    /\ Terminate(1, "Traceback: ExceptionPexpect", <<>>)
    /\ UNCHANGED <<argv, args, cwdIsDir>>
    /\ UNCHANGED diskVars /\ UNCHANGED runVars

\* the chunk is read and not kept
ReadDrops ==
    /\ pc = "read" /\ chunks < MaxChunks
    /\ chunks' = chunks + 1
    /\ UNCHANGED <<pc, argv, args, cwdIsDir, exit>>
    /\ UNCHANGED diskVars
    /\ UNCHANGED <<todo, target, fileName, outFiles, testsslOut, attempt,
                   procAlive, lastRead, stdout, aha>>

\* lines 373-374: a chunk, named by the attempt it comes from and its number
Read ==
    /\ pc = "read" /\ chunks < MaxChunks
    /\ testsslOut' = Append(testsslOut, <<attempt, chunks + 1>>)
    /\ chunks' = chunks + 1
    /\ UNCHANGED <<pc, argv, args, cwdIsDir, exit>>
    /\ UNCHANGED diskVars
    /\ UNCHANGED <<todo, target, fileName, outFiles, attempt, procAlive,
                   lastRead, stdout, aha>>

\* the batch flag is not looked at and the operator is asked
TimeoutBatchAsks ==
    /\ pc = "read" /\ argv.batch
    /\ procAlive' = FALSE
    /\ lastRead' = "timeout"
    /\ pc' = "prompt"
    /\ UNCHANGED <<argv, args, cwdIsDir, exit>>
    /\ UNCHANGED diskVars
    /\ UNCHANGED <<todo, target, fileName, outFiles, testsslOut, attempt,
                   chunks, stdout, aha>>

\* the timeout ends the run
TimeoutBatchEnds ==
    /\ pc = "read" /\ argv.batch
    /\ procAlive' = FALSE
    /\ lastRead' = "timeout"
    /\ Terminate(1, "Scan timed out", target)
    /\ UNCHANGED <<argv, args, cwdIsDir>>
    /\ UNCHANGED diskVars
    /\ UNCHANGED <<todo, target, fileName, outFiles, testsslOut, attempt,
                   chunks, stdout, aha>>

\* lines 375-377 and 383-385 with args.batch
TimeoutBatch ==
    /\ pc = "read" /\ argv.batch
    /\ procAlive' = FALSE
    /\ lastRead' = "timeout"
    /\ pc' = "render"
    /\ UNCHANGED <<argv, args, cwdIsDir, exit>>
    /\ UNCHANGED diskVars
    /\ UNCHANGED <<todo, target, fileName, outFiles, testsslOut, attempt,
                   chunks, stdout, aha>>

\* the process is left running while the operator is asked
TimeoutPromptKeeps ==
    /\ pc = "read" /\ ~argv.batch
    /\ lastRead' = "timeout"
    /\ pc' = "prompt"
    /\ UNCHANGED <<argv, args, cwdIsDir, exit>>
    /\ UNCHANGED diskVars
    /\ UNCHANGED <<todo, target, fileName, outFiles, testsslOut, attempt,
                   chunks, procAlive, stdout, aha>>

\* lines 375-377: the process is closed and the operator is asked
TimeoutPrompt ==
    /\ pc = "read" /\ ~argv.batch
    /\ procAlive' = FALSE
    /\ lastRead' = "timeout"
    /\ pc' = "prompt"
    /\ UNCHANGED <<argv, args, cwdIsDir, exit>>
    /\ UNCHANGED diskVars
    /\ UNCHANGED <<todo, target, fileName, outFiles, testsslOut, attempt,
                   chunks, stdout, aha>>

\* lines 377-382: yes; run stays True and the while loop spawns again
RetryYes ==
    /\ pc = "prompt" /\ attempt < MaxAttempts
    /\ files' = RemoveFiles(files, Glob(files, fileName \o <<".">>))
    /\ pc' = "spawn"
    /\ UNCHANGED <<argv, args, cwdIsDir, exit, dirState, targetsFile, zipFile>>
    /\ UNCHANGED runVars

\* lines 377, 383-385: no
RetryNo ==
    /\ pc = "prompt"
    /\ pc' = "render"
    /\ UNCHANGED <<argv, args, cwdIsDir, exit>>
    /\ UNCHANGED diskVars /\ UNCHANGED runVars

\* lines 386-389
Eof ==
    /\ pc = "read"
    /\ procAlive' = FALSE
    /\ lastRead' = "eof"
    /\ pc' = "render"
    /\ UNCHANGED <<argv, args, cwdIsDir, exit>>
    /\ UNCHANGED diskVars
    /\ UNCHANGED <<todo, target, fileName, outFiles, testsslOut, attempt,
                   chunks, stdout, aha>>

\* line 392: the returncode of the CompletedProcess subprocess.run gives
\* back, 0 or not
ReturnCode == {0, 1}

\* lines 390-394: aha reads testsslOut and writes <fileName>.html; its exit
\* status is kept in `aha` and not looked at
Render ==
    /\ pc = "render"
    /\ files' = WriteFiles(files, {fileName \o Html}, target)
    /\ aha' \in ReturnCode
    /\ outFiles' = Append(outFiles, fileName)
    /\ pc' = "loop"
    /\ UNCHANGED <<argv, args, cwdIsDir, exit, dirState, targetsFile, zipFile>>
    /\ UNCHANGED <<todo, target, fileName, testsslOut, attempt, chunks,
                   procAlive, lastRead, stdout>>

\* lines 391-393: open() has created the file when subprocess.run raises
\* because aha cannot be started
RenderFail ==
    /\ pc = "render"
    /\ files' = WriteFiles(files, {fileName \o Html}, target)
    /\ Terminate(1, "Traceback: FileNotFoundError", fileName \o Html)
    /\ UNCHANGED <<argv, args, cwdIsDir, dirState, targetsFile, zipFile>>
    /\ UNCHANGED runVars

(***************************************************************************)
(* main after runTestssl returns, lines 459-477                            *)
(***************************************************************************)
\* lines 395, 459-460 in command-only mode: nothing more is done
ReturnCmdOnly ==
    /\ pc = "loop" /\ todo = {} /\ argv.cmdOnly
    /\ Terminate(0, "", <<>>)
    /\ UNCHANGED <<argv, args, cwdIsDir>>
    /\ UNCHANGED diskVars /\ UNCHANGED runVars

\* lines 395, 459-466, 471-477: no archive; opening the HTML files in a
\* browser changes nothing of the state
ReturnDone ==
    /\ pc = "loop" /\ todo = {} /\ ~argv.cmdOnly /\ ~AnyZip(argv)
    /\ Terminate(0, "Output files written", <<>>)
    /\ UNCHANGED <<argv, args, cwdIsDir>>
    /\ UNCHANGED diskVars /\ UNCHANGED runVars

\* lines 395, 459-470: runTestssl returns outFiles, its other locals are gone
ReturnZip ==
    /\ pc = "loop" /\ todo = {} /\ ~argv.cmdOnly /\ AnyZip(argv)
    /\ pc' = "zipDir"
    /\ target' = <<>> /\ fileName' = <<>> /\ testsslOut' = <<>>
    /\ attempt' = 0 /\ chunks' = 0 /\ lastRead' = "none" /\ aha' = "none"
    /\ UNCHANGED <<argv, args, cwdIsDir, exit, todo, outFiles, procAlive, stdout>>
    /\ UNCHANGED diskVars

\* lines 443, 478-479: KeyboardInterrupt raised anywhere inside the try is
\* turned into sys.exit("\nTerminated by user"); the handler does not touch
\* testsslProc.  Whether the child outlives the program is left to the
\* finaliser of the pexpect object during interpreter teardown, which may
\* or may not run.
Interrupt ==
    /\ pc # "exit"
    /\ Terminate(1, "Terminated by user", <<>>)
    /\ procAlive' \in {procAlive, FALSE}
    /\ UNCHANGED <<argv, args, cwdIsDir>>
    /\ UNCHANGED diskVars
    /\ UNCHANGED <<todo, target, fileName, outFiles, testsslOut, attempt,
                   chunks, lastRead, stdout, aha>>

(***************************************************************************)
(* zipDir, lines 397-439                                                   *)
(***************************************************************************)
TargetsPath == <<"t", "a", "r", "g", "e", "t", "s", "_", "t", "e", "s", "t",
                 "s", "s", "l", ".", "t", "x", "t">>

\* lines 415-419: every file os.walk finds under the directory
Walk == DOMAIN files \cup
        (IF targetsFile.state = "absent" THEN {} ELSE {argv.directory \o <<"/">> \o TargetsPath})

\* lines 406-419: the archive is opened for writing and every file is
\* added; it is still open, its central directory not yet written
ZipCreate ==
    /\ pc = "zipDir"
    /\ zipFile' = [state |-> "open", members |-> Walk, verified |-> FALSE]
    /\ pc' = "zipVerify"
    /\ UNCHANGED <<argv, args, cwdIsDir, exit, dirState, targetsFile, files>>
    /\ UNCHANGED runVars

\* lines 406-421: opening or writing raises; whatever was written is
\* closed at exit (line 414)
ZipCreateFail ==
    /\ pc = "zipDir"
    /\ \/ UNCHANGED zipFile
       \/ zipFile' = [state |-> "partial", members |-> {}, verified |-> FALSE]
    /\ Terminate(1, "Could not create zip archive", <<>>)
    /\ UNCHANGED <<argv, args, cwdIsDir, dirState, targetsFile, files>>
    /\ UNCHANGED runVars

\* the result of testzip() is not looked at
IntactIgnored(result) == TRUE

\* line 429: testzip() returns None when no member is corrupt
Intact(result) == result = "None"

\* lines 423-431 and 437-438: with a password the archive is closed and
\* opened again before testzip(); it is closed before rmtree in either case
ZipVerify ==
    /\ pc = "zipVerify"
    /\ \E result \in {"None", "member"} :
         IF Intact(result)
         THEN /\ zipFile' = [zipFile EXCEPT !.state = "closed",
                                            !.verified = (result = "None")]
              /\ pc' = "rmtree"
              /\ UNCHANGED exit
         ELSE /\ zipFile' = [zipFile EXCEPT !.state = "closed"]
              /\ Terminate(1, "Zip archive corrupted", <<>>)
    /\ UNCHANGED <<argv, args, cwdIsDir, dirState, targetsFile, files>>
    /\ UNCHANGED runVars

\* lines 424-429: close(), AESZipFile(zipName, 'r') or testzip() raises
ZipVerifyRaise ==
    /\ pc = "zipVerify"
    /\ zipFile' = [zipFile EXCEPT !.state = "partial"]
    /\ Terminate(1, "Traceback: zip", <<>>)
    /\ UNCHANGED <<argv, args, cwdIsDir, dirState, targetsFile, files>>
    /\ UNCHANGED runVars

\* lines 432-434, 439
RmTree ==
    /\ pc = "rmtree"
    /\ dirState' = "absent"
    /\ files' = NoFiles
    /\ targetsFile' = Absent
    /\ Terminate(0, "Output directory compressed", <<>>)
    /\ UNCHANGED <<argv, args, cwdIsDir, zipFile>>
    /\ UNCHANGED runVars

\* lines 433-436: rmtree raises, before it removed anything or once the
\* scan output is gone
RmTreeFail ==
    /\ pc = "rmtree"
    /\ \/ UNCHANGED files
       \/ files' = NoFiles
    /\ Terminate(1, "Could not remove directory", <<>>)
    /\ UNCHANGED <<argv, args, cwdIsDir, dirState, targetsFile, zipFile>>
    /\ UNCHANGED runVars

(***************************************************************************)
(* Specifications                                                          *)
(***************************************************************************)
RECURSIVE Pick(_, _)
\* the elements of pool at the places S, in the order of pool
Pick(pool, S) ==
    IF pool = <<>> THEN <<>>
    ELSE Pick(SubSeq(pool, 1, Len(pool) - 1), S)
         \o (IF Len(pool) \in S THEN <<pool[Len(pool)]>> ELSE <<>>)

UrlChoices ==
    {Pick(MainPool, S) :
        S \in {X \in SUBSET (1..Len(MainPool)) : Cardinality(X) \in 1..MaxTargets}}

\* output of an earlier run with the same label, found in the directory
EarlierOutput(label) ==
    LET old(names) == [n \in names |-> Old]
    IN  {NoFiles,
         old({FileName(OutDir(Directory), Host, label) \o Json}),
         old({FileName(OutDir(Directory), Host, label) \o Json,
              FileName(OutDir(Directory), TPort, label) \o Html})}

InitRun ==
    /\ todo = {} /\ target = <<>> /\ fileName = <<>> /\ outFiles = <<>>
    /\ testsslOut = <<>> /\ attempt = 0 /\ chunks = 0 /\ procAlive = FALSE
    /\ lastRead = "none" /\ stdout = <<>> /\ aha = "none"
    /\ args = NoArgs /\ exit = NoExit

\* the program is started on a command line with one or more -u options
\* and no label, outside the output directory, with no archive of it yet
Init ==
    /\ pc = "parseArgs"
    /\ argv \in [batch : BOOLEAN, cmdOnly : BOOLEAN,
                 mode : {"none", "overwrite", "skip"},
                 zip : {"none", "zip", "encrypt"},
                 label : {<<>>}, directory : {Directory},
                 urls : UrlChoices, files : {<<>>},
                 filesNessus : {<<>>}, filesXml : {<<>>}]
    /\ dirState \in {"absent", "dir", "file"}
    /\ files \in (IF dirState = "dir" THEN EarlierOutput(argv.label) ELSE {NoFiles})
    /\ targetsFile \in (IF dirState = "dir"
                        THEN {Absent, [state |-> "old", targets |-> {}]}
                        ELSE {Absent})
    /\ zipFile = NoZip
    /\ cwdIsDir = FALSE
    /\ InitRun

Next ==
    \/ ParseArgs
    \/ MainCmdOnly \/ MainTargetListExists \/ MainWriteTargetList
    \/ RunStart \/ RunStartDenied
    \/ NoConflict \/ Overwrite \/ OverwriteFail \/ Skip \/ Abort \/ PrintCmd
    \/ Spawn \/ SpawnFail \/ Read \/ TimeoutBatch \/ TimeoutPrompt
    \/ RetryYes \/ RetryNo \/ Eof \/ Render \/ RenderFail
    \/ ReturnCmdOnly \/ ReturnDone \/ ReturnZip
    \/ ZipCreate \/ ZipCreateFail \/ ZipVerify \/ ZipVerifyRaise
    \/ RmTree \/ RmTreeFail
    \/ Interrupt

Spec == Init /\ [][Next]_vars

(***************************************************************************)
(* The output namer on its own: a command-only run over two targets drawn  *)
(* from every string of bounded length, with and without a label           *)
(***************************************************************************)
Alphabet == {"a", "/", ":", " ", "_"}
Scheme == <<"s", ":", "/", "/">>

\* every str of 1..n characters
Strs(n) == UNION {[1..k -> Alphabet] : k \in 1..n}

\* what -u can hand over and parseArgs leaves as it is: no surrounding space
Candidates(n, schemes) ==
    {t \in {sch \o b : sch \in schemes, b \in Strs(n)} : Strip(t) = t}

InitNamer ==
    /\ pc = "parseArgs"
    /\ argv \in [batch : {TRUE}, cmdOnly : {TRUE}, mode : {"none"}, zip : {"none"},
                 label : {<<>>, Label}, directory : {Directory},
                 urls : {<<t1, t2>> : t1 \in Candidates(MaxLen, {<<>>, Scheme}),
                                      t2 \in Candidates(MaxLen2, {<<>>})},
                 files : {<<>>}, filesNessus : {<<>>}, filesXml : {<<>>}]
    /\ dirState = "dir" /\ files = NoFiles /\ targetsFile = Absent
    /\ zipFile = NoZip /\ cwdIsDir = FALSE
    /\ InitRun

NextNamer == ParseArgs \/ MainCmdOnly \/ RunStart \/ PrintCmd \/ ReturnCmdOnly

NamerSpec == InitNamer /\ [][NextNamer]_vars

(***************************************************************************)
(* parseArgs on its own: every source of targets, every state of the       *)
(* output directory and of the archive                                     *)
(***************************************************************************)
Padded == <<" ", "b", ".", "i", "o", " ">>
Blank == <<" ", " ">>
Markup == <<"<", "x", ">">>
UrlPool == {Host, Padded, Blank}

\* files given with -fL: missing, a list of targets, a report by mistake
FileListPool ==
    {[exists |-> FALSE, lines |-> <<>>],
     [exists |-> TRUE, lines |-> <<THttps, <<>>, Padded>>],
     [exists |-> TRUE, lines |-> <<Host, Markup>>]}

\* files given with -fN or -fX, with the targets parseNessus (lines
\* 107-121) or parseNmap (lines 123-139) extracts from them
ReportPool ==
    {[exists |-> FALSE, ok |-> FALSE, targets |-> <<>>],
     [exists |-> TRUE, ok |-> FALSE, targets |-> <<>>],
     [exists |-> TRUE, ok |-> TRUE, targets |-> <<TPort>>],
     [exists |-> TRUE, ok |-> TRUE, targets |-> <<>>]}

UpTo(pool, n) == UNION {[1..k -> pool] : k \in 0..n}

InitParse ==
    /\ pc = "parseArgs"
    /\ argv \in [batch : BOOLEAN, cmdOnly : BOOLEAN,
                 mode : {"none", "overwrite"},
                 zip : {"none", "zip", "encrypt"},
                 label : {<<>>}, directory : {Directory},
                 urls : UpTo(UrlPool, MaxTargets),
                 files : UpTo(FileListPool, 1),
                 filesNessus : UpTo(ReportPool, 1),
                 filesXml : {<<>>, <<[exists |-> TRUE, ok |-> TRUE, targets |-> <<Host>>]>>}]
    /\ dirState \in {"absent", "dir", "file"}
    /\ files = NoFiles
    /\ targetsFile = Absent
    /\ zipFile \in {NoZip, [state |-> "old", members |-> {}, verified |-> FALSE]}
    /\ cwdIsDir \in (IF dirState = "dir" THEN BOOLEAN ELSE {FALSE})
    /\ InitRun

NextParse == ParseArgs

ParseSpec == InitParse /\ [][NextParse]_vars

(***************************************************************************)
(* Claims                                                                  *)
(***************************************************************************)
Scanning == pc \in {"spawn", "read", "prompt", "render"}
Zipping == pc \in {"zipDir", "zipVerify", "rmtree"}

\* C1: zipDir writes the archive, verifies it and only then deletes: the
\* output directory or anything in it is removed only when every file was
\* added to the archive, testzip() found no corrupt member and the archive
\* was closed; when creating or verifying the archive fails the program
\* exits with the directory and its contents as they were.
C1_WriteVerifyDelete ==
    [][/\ (Zipping /\ (dirState' # dirState \/ files' # files
                       \/ targetsFile' # targetsFile))
          => /\ zipFile.state = "closed"
             /\ zipFile.verified
             /\ zipFile.members = Walk
       /\ (Zipping /\ pc' = "exit"
           /\ exit'.msg \in {"Could not create zip archive",
                             "Zip archive corrupted", "Traceback: zip"})
          => /\ exit'.code # 0
             /\ dirState' = "dir"
             /\ files' = files
             /\ targetsFile' = targetsFile]_vars

\* C1 witness: the directory is gone after a verified archive of it
C1_Witness ==
    /\ pc = "exit" /\ exit.msg = "Output directory compressed"
    /\ dirState = "absent"
    /\ zipFile.state = "closed" /\ zipFile.verified /\ zipFile.members # {}

\* C2 as stated: once a batch run moves on from a target whose scan timed
\* out, there is no <basename>.html for it
C2_NoHtmlAfterBatchTimeout ==
    [][(argv.batch /\ lastRead = "timeout" /\ Scanning /\ pc' = "loop")
       => (fileName \o Html) \notin DOMAIN files']_vars

\* C2 as amended: a batch run that times out on a target asks nobody and
\* spawns no second process for it, and then renders what was read before
\* the timeout: unless the operator interrupts the run, <basename>.html is
\* written and the basename joins the returned list
C2_BatchTimeoutStillRenders ==
    [][/\ (pc = "read" /\ argv.batch /\ lastRead' = "timeout")
          => (pc' = "render" /\ ~procAlive' /\ testsslOut' = testsslOut)
       /\ (argv.batch /\ lastRead = "timeout" /\ Scanning /\ pc' # pc
           /\ exit'.msg # "Terminated by user")
          => /\ attempt = 1
             /\ pc = "render"
             /\ testsslOut' = testsslOut
             /\ (fileName \o Html) \in DOMAIN files'
             /\ pc' = "loop" => outFiles' = Append(outFiles, fileName)]_vars

\* C2 witness: a batch run is back in its loop after a timeout, with the
\* HTML file of the timed-out target written
C2_Witness ==
    /\ pc = "loop" /\ argv.batch /\ lastRead = "timeout" /\ attempt = 1
    /\ outFiles # <<>> /\ outFiles[Len(outFiles)] = fileName
    /\ (fileName \o Html) \in DOMAIN files
    /\ testsslOut # <<>>

\* C3 as stated: once parseArgs has returned, every non-empty trimmed line
\* of every -fL file is in args.targets
C3_FileLinesAreTargets ==
    pc = "main" =>
        \A i \in DOMAIN argv.files :
            \A j \in DOMAIN argv.files[i].lines :
                Strip(argv.files[i].lines[j]) # <<>>
                    => Strip(argv.files[i].lines[j]) \in args.targets

\* C4 as stated: what aha is given holds only chunks of the last process
\* spawned for the target
C4_BufferReset ==
    pc = "render" => \A i \in DOMAIN testsslOut : testsslOut[i][1] = attempt

\* the step of the for loop that takes target t
Takes(t) == pc = "loop" /\ t \in todo /\ todo' = todo \ {t}

NoFileTouched == files' = files /\ targetsFile' = targetsFile
                 /\ dirState' = dirState /\ zipFile' = zipFile

\* no process is spawned: attempt only grows in Spawn
NoProcess == ~procAlive' /\ attempt' <= attempt

\* C5 as stated: in skip mode a target with existing output is passed
\* over: no process, no file touched, the loop goes on without error, and
\* its basename is not in the output-file list
C5_SkippedIsAbsent ==
    [][\A t \in todo :
          (Takes(t) /\ argv.mode = "skip" /\ ExistingOutput(t) # {})
          => /\ NoProcess /\ NoFileTouched
             /\ pc' = "loop" /\ exit' = NoExit
             /\ NameOf(t) \notin Range(outFiles')]_vars

\* C5 as amended: ... and it adds nothing to the output-file list, so its
\* basename is in the list only if another target of the run with the same
\* basename was scanned before it
C5_SkippedAddsNothing ==
    [][\A t \in todo :
          (Takes(t) /\ argv.mode = "skip" /\ ExistingOutput(t) # {})
          => /\ NoProcess /\ NoFileTouched
             /\ pc' = "loop" /\ exit' = NoExit
             /\ outFiles' = outFiles
             /\ NameOf(t) \in Range(outFiles')
                => \E u \in args.targets \ todo :
                      u # t /\ NameOf(u) = NameOf(t)]_vars

\* C5 witness: a target has just been skipped and another is still to come
C5_Witness ==
    /\ pc = "loop" /\ argv.mode = "skip" /\ ~argv.cmdOnly
    /\ target # <<>> /\ todo # {}
    /\ Glob(files, fileName) # {}
    /\ fileName \notin Range(outFiles)

\* C6: in overwrite mode every file matching <basename>* is deleted before
\* the scan of the target starts, so that what then matches was written for
\* this target; when a deletion fails the run ends with an error naming
\* the file, which is still there, and no process is spawned
C6_OverwriteDeletesFirst ==
    [][\A t \in todo :
          (Takes(t) /\ argv.mode = "overwrite" /\ ~argv.cmdOnly
           /\ ExistingOutput(t) # {})
          => \/ /\ pc' = "spawn"
                /\ NoProcess
                /\ \A f \in ExistingOutput(t) :
                      f \in DOMAIN files' => (f = NameOf(t) \o Sh /\ files'[f] = t)
                /\ \A f \in Glob(files', NameOf(t)) : files'[f] = t
             \/ /\ pc' = "exit"
                /\ exit'.code # 0
                /\ exit'.msg = "Could not delete file"
                /\ exit'.what \in ExistingOutput(t)
                /\ exit'.what \in DOMAIN files'
                /\ NoProcess]_vars

\* C6 witness: the second of two targets with one basename is about to be
\* scanned, and of the first one's files nothing is left
C6_Witness ==
    /\ pc = "spawn" /\ argv.mode = "overwrite" /\ attempt = 0
    /\ fileName \in Range(outFiles)
    /\ Glob(files, fileName) = {fileName \o Sh}

\* C7: with neither overwrite nor skip, existing output for a target ends
\* the run there with a non-zero status: nothing is deleted, no process is
\* spawned for it, and nothing at all happens afterwards
C7_AbortsOnConflict ==
    [][/\ \A t \in todo :
            (Takes(t) /\ argv.mode = "none" /\ ~argv.cmdOnly
             /\ ExistingOutput(t) # {})
            => /\ pc' = "exit"
               /\ exit'.code # 0
               /\ exit'.msg = "Output files already exist"
               /\ NoFileTouched /\ NoProcess
       /\ ~(pc = "exit" /\ exit.msg = "Output files already exist")]_vars

\* C7 witness: the run was aborted with targets still to scan and the
\* archive that was asked for not made
C7_Witness ==
    /\ pc = "exit" /\ exit.msg = "Output files already exist" /\ exit.code = 1
    /\ todo # {} /\ Glob(files, fileName) # {}
    /\ AnyZip(argv) /\ zipFile = NoZip

\* the first place of s where "://" follows i characters and is followed by
\* at least `rest` more, or 0
SchemeEnd(s, rest) ==
    LET at == {i \in 1..(Len(s) - 3 - rest) :
                  <<s[i + 1], s[i + 2], s[i + 3]>> = <<":", "/", "/">>}
    IN  IF at = {} THEN 0 ELSE (CHOOSE i \in at : \A j \in at : i <= j) + 3

Suffix(label) == IF label = <<>> THEN <<>> ELSE <<"_">> \o label

\* the function C8 describes: the scheme goes, then one trailing '/', then
\* '/', ' ' and ':' each become '_'
DescribedName(dir, t, label) ==
    LET a == SubSeq(t, SchemeEnd(t, 0) + 1, Len(t))
        b == IF a # <<>> /\ a[Len(a)] = "/" THEN SubSeq(a, 1, Len(a) - 1) ELSE a
    IN  dir \o Prefix
            \o [i \in 1..Len(b) |-> IF b[i] \in {"/", " ", ":"} THEN "_" ELSE b[i]]
            \o Suffix(label)

\* what is left of a target once every trailing '/' and then a leading
\* scheme:// with something after it are gone; a target of slashes only
\* stays as it is
Core(t) ==
    LET ends == {i \in 1..Len(t) : t[i] # "/"}
        n == IF ends = {} THEN 0 ELSE CHOOSE i \in ends : \A j \in ends : j <= i
        a == SubSeq(t, 1, n)
    IN  IF n = 0 THEN t ELSE SubSeq(a, SchemeEnd(a, 1) + 1, n)

NoSpaces(s) == SelectSeq(s, LAMBDA c : c # " ")

\* the function of C8 as amended: every trailing '/' goes, then the scheme,
\* spaces are dropped, '/' and ':' each become '_'
AmendedName(dir, t, label) ==
    LET b == NoSpaces(Core(t))
    IN  dir \o Prefix
            \o [i \in 1..Len(b) |-> IF b[i] \in {"/", ":"} THEN "_" ELSE b[i]]
            \o Suffix(label)

\* C8 as stated: the basename of every target is the one the described
\* function gives (scheme stripped, one trailing '/' stripped, '/', ' '
\* and ':' replaced by '_', prefixed, label appended)
C8_NameAsDescribed ==
    \A i \in DOMAIN stdout :
        stdout[i].fileName
            = DescribedName(OutDir(argv.directory), stdout[i].target, argv.label)

\* C8 as amended: the basename of every target is <dir>/testssl_ followed
\* by the target without its trailing slashes (all of them) and without
\* its scheme, with '/' and ':' replaced by '_' and spaces removed, and by
\* _<label> when a non-empty label was given
C8_NameAsComputed ==
    \A i \in DOMAIN stdout :
        stdout[i].fileName
            = AmendedName(OutDir(argv.directory), stdout[i].target, argv.label)

\* C8 witness: a labelled target with a scheme, a space and a trailing '/'
C8_Witness ==
    \E i \in DOMAIN stdout :
        /\ stdout[i].target = Scheme \o <<"a", " ", "/">>
        /\ argv.label = Label
        /\ stdout[i].fileName = OutDir(Directory) \o Prefix \o <<"a", "_", "L">>

\* C9 as stated: two targets of a run have one basename only if they are
\* the same once scheme and trailing slashes are stripped
C9_InjectiveUpToSchemeAndSlash ==
    \A i, j \in DOMAIN stdout :
        stdout[i].fileName = stdout[j].fileName
            => Core(stdout[i].target) = Core(stdout[j].target)

\* two stripped targets differ only in spaces and in which of '/', ':'
\* and '_' stands at a place
Alike(a, b) ==
    LET x == NoSpaces(a)
        y == NoSpaces(b)
    IN  /\ Len(x) = Len(y)
        /\ \A k \in 1..Len(x) : x[k] = y[k] \/ {x[k], y[k]} \subseteq {"/", ":", "_"}

\* C9 as amended: two targets of a run have one basename only if, once
\* scheme and trailing slashes are stripped, they differ in nothing but
\* spaces and which of '/', ':' and '_' stands at a place
C9_InjectiveUpToReplacement ==
    \A i, j \in DOMAIN stdout :
        stdout[i].fileName = stdout[j].fileName
            => Alike(Core(stdout[i].target), Core(stdout[j].target))

\* C9 witness: two targets that differ in more than scheme and slash share
\* a basename
C9_Witness ==
    \E i, j \in DOMAIN stdout :
        /\ stdout[i].target = <<"a", " ", ":">>
        /\ stdout[j].target = <<"a", "_">>
        /\ stdout[i].fileName = stdout[j].fileName

\* the basename testssl_a.example.com in the output directory
HostName == OutDir(Directory) \o Prefix \o Host

\* C10: https://a.example.com/ and a.example.com both get the basename
\* testssl_a.example.com, and when one of them was scanned in this run the
\* other finds its output as existing output: under overwrite the files
\* are deleted and the target is scanned (or the run ends on a failed
\* deletion), under skip the target is passed over, otherwise the run is
\* aborted
C10_DuplicateIsConflict ==
    [][\A t \in todo \cap {THttps, Host} :
          Takes(t)
          => /\ fileName' = HostName
             /\ \A u \in {THttps, Host} \ {t} :
                   (u \in args.targets \ todo /\ NameOf(u) \in Range(outFiles))
                   => /\ (HostName \o Html) \in ExistingOutput(t)
                      /\ files[HostName \o Html] = u
                      /\ argv.mode = "overwrite"
                         => \/ /\ pc' = "spawn"
                               /\ \A f \in ExistingOutput(t) :
                                     f \in DOMAIN files' => files'[f] = t
                            \/ /\ pc' = "exit"
                               /\ exit'.msg = "Could not delete file"
                      /\ argv.mode = "skip"
                         => pc' = "loop" /\ NoFileTouched /\ outFiles' = outFiles
                      /\ argv.mode = "none"
                         => /\ pc' = "exit" /\ exit'.code # 0
                            /\ exit'.msg = "Output files already exist"]_vars

\* C10 witness: both were in the run, one was scanned and the other skipped
C10_Witness ==
    /\ pc = "loop" /\ argv.mode = "skip" /\ todo = {}
    /\ args.targets = {THttps, Host}
    /\ outFiles = <<HostName>>
    /\ fileName = HostName
    /\ files[HostName \o Html] # target

\* C11 as stated: the program never reaches its exit with a spawned scan
\* process still running; an interrupt while the child is alive ends the
\* child before the program exits
C11_NoOrphanAtExit ==
    pc = "exit" => ~procAlive

\* the command line holds the program's name and nothing else
Bare ==
    /\ ~argv.batch /\ ~argv.cmdOnly /\ argv.mode = "none" /\ argv.zip = "none"
    /\ argv.label = <<>> /\ argv.urls = <<>> /\ argv.files = <<>>
    /\ argv.filesNessus = <<>> /\ argv.filesXml = <<>>

\* C12 as stated: started with no arguments the program prints the usage
\* text and exits with a non-zero status
C12_NoArgumentsFails ==
    (pc = "exit" /\ Bare) => (exit.msg = "usage" /\ exit.code # 0)

\* C12 as amended: started with no arguments the program prints the usage
\* text and exits with status 0, having resolved no target
C12_NoArgumentsExitsZero ==
    (pc # "parseArgs" /\ Bare)
        => (pc = "exit" /\ exit = Exit(0, "usage", <<>>) /\ args = NoArgs)

\* C12 witness: the usage text was printed for a bare command line
C12_Witness ==
    pc = "exit" /\ Bare /\ exit.msg = "usage" /\ exit.code = 0 /\ args = NoArgs

\* an archive was asked for and the output directory is the current one
ArchiveOfCwd == pc = "parseArgs" /\ AnyZip(argv) /\ cwdIsDir

NothingDone ==
    /\ UNCHANGED diskVars /\ UNCHANGED runVars
    /\ ~procAlive' /\ attempt' = 0 /\ args' = NoArgs

\* C13 as stated: with -z or -e and the current directory as output
\* directory the run fails (non-zero status) before any file I/O: nothing
\* is created, written, spawned, archived or deleted
C13_CwdArchiveFails ==
    [][ArchiveOfCwd => (pc' = "exit" /\ exit'.code # 0 /\ NothingDone)]_vars

\* C13 as amended: with -z or -e and the current directory as output
\* directory the run ends in parseArgs before any file I/O; it ends with
\* the error on the current directory unless no target source was given,
\* the operator declined to compress the directory or to overwrite the
\* archive (status 0), or a batch run found the archive without -o
C13_CwdArchiveStops ==
    [][ArchiveOfCwd
       => /\ pc' = "exit" /\ NothingDone
          /\ \/ exit' = Exit(1, "Cannot zip the current directory", <<>>)
             \/ /\ exit' = Exit(1, "Please specify at least one target", <<>>)
                /\ argv.urls = <<>> /\ argv.files = <<>>
                /\ argv.filesNessus = <<>> /\ argv.filesXml = <<>>
             \/ /\ exit' = Exit(0, "", <<>>)
                /\ ~argv.batch
                /\ ~argv.cmdOnly \/ (zipFile.state # "absent" /\ argv.mode # "overwrite")
             \/ /\ exit' = Exit(1, "Zip archive exists", <<>>)
                /\ argv.batch /\ zipFile.state # "absent" /\ argv.mode # "overwrite"]_vars

\* C13 witness: a run that was to scan and archive ended on the error
\* about the current directory, with targets given and nothing on disk
\* touched
C13_Witness ==
    /\ pc = "exit" /\ exit.msg = "Cannot zip the current directory"
    /\ AnyZip(argv) /\ cwdIsDir /\ ~argv.cmdOnly /\ argv.urls # <<>>
    /\ dirState = "dir" /\ targetsFile = Absent /\ zipFile = NoZip

\* C14: in batch mode a timeout is final for its target: the operator is
\* never asked, at most one process is spawned for a target, and from the
\* timeout the run goes through rendering back to its loop over the
\* targets with the remaining targets untouched; it ends there only when
\* aha cannot be started or the operator interrupts
C14_BatchTimeoutIsFinal ==
    [][argv.batch
       => /\ pc' # "prompt"
          /\ attempt' <= 1
          /\ (pc = "read" /\ lastRead' = "timeout")
                => (pc' = "render" /\ exit' = NoExit /\ todo' = todo)
          /\ (pc = "render" /\ lastRead = "timeout")
                => \/ pc' = "loop" /\ exit' = NoExit /\ todo' = todo
                   \/ pc' = "exit" /\ exit'.msg \in {"Traceback: FileNotFoundError",
                                                     "Terminated by user"}]_vars

\* C14 witness: after a timeout a batch run is back in its loop with a
\* target still to scan
C14_Witness ==
    /\ pc = "loop" /\ argv.batch /\ lastRead = "timeout" /\ attempt = 1
    /\ todo # {} /\ exit = NoExit

\* C15: on every idle timeout the scan process is closed before the
\* operator is asked and before another process is spawned: no process is
\* alive at the prompt or when aha is run, and a process is spawned only
\* when none is alive, so at most one is alive at any time; outside the
\* streaming loop a process is alive only at the exit an interrupt of that
\* loop leads to
C15_ClosedBeforePromptAndSpawn ==
    [][/\ pc' \in {"prompt", "render", "spawn"} => ~procAlive'
       /\ attempt' = attempt + 1 => (~procAlive /\ pc = "spawn")
       /\ (procAlive' /\ pc' # "read") => (pc = "read" /\ pc' = "exit")]_vars

\* C15 witness: the second process for a target is running after the
\* first timed out
C15_Witness ==
    /\ pc = "read" /\ procAlive /\ attempt = 2 /\ lastRead = "timeout"

\* C16: when a run scans, targets_testssl.txt is written before the first
\* process is spawned and its lines are exactly the resolved targets; when
\* the file is there already and -o was not given, the run ends in main
\* with nothing written and nothing spawned
C16_TargetListFirst ==
    [][/\ attempt' = attempt + 1
          => targetsFile = [state |-> "new", targets |-> args.targets]
       /\ (pc = "main" /\ ~argv.cmdOnly
           /\ targetsFile.state # "absent" /\ argv.mode # "overwrite")
          => /\ pc' = "exit"
             /\ exit'.code # 0
             /\ exit'.msg \in {"Target list already exists", "Terminated by user"}
             /\ UNCHANGED diskVars
             /\ ~procAlive' /\ attempt' = 0]_vars

\* C16 witness: the first process runs and the list of both targets is
\* on disk
C16_Witness ==
    /\ pc = "read" /\ attempt = 1 /\ outFiles = <<>>
    /\ Cardinality(args.targets) = 2
    /\ targetsFile = [state |-> "new", targets |-> args.targets]

\* C17: while the one process spawned for a target is streaming, every
\* chunk read is appended to the buffer, and when it ends in end-of-output
\* with no timeout what aha is given is exactly the chunks read, each
\* once, in the order read
C17_BufferIsChunksInOrder ==
    [][/\ (pc = "read" /\ chunks' = chunks + 1)
          => testsslOut' = Append(testsslOut, <<attempt, chunks'>>)
       /\ (pc = "read" /\ chunks' = chunks) => testsslOut' = testsslOut
       /\ (pc = "render" /\ attempt = 1 /\ lastRead = "eof")
          => /\ testsslOut = [i \in 1..chunks |-> <<1, i>>]
             /\ testsslOut' = testsslOut]_vars

\* C17 witness: aha is about to be given the two chunks of a scan that
\* ended by itself
C17_Witness ==
    /\ pc = "render" /\ attempt = 1 /\ lastRead = "eof"
    /\ testsslOut = <<(<<1, 1>>), (<<1, 2>>)>>

\* C18 as stated: when aha cannot be started or exits abnormally the run
\* fails with an error, so it goes on to the next target only after aha
\* exited normally; either way the command script and the report files
\* already written for the target stay as they are
C18_AbnormalRenderFails ==
    [][(pc = "render" /\ pc' # pc)
       => /\ pc' = "loop" => aha' = 0
          /\ pc' = "exit" => exit'.code # 0
          /\ \A f \in (ReportFiles(fileName) \cup {fileName \o Sh}) \cap DOMAIN files :
                f \in DOMAIN files' /\ files'[f] = files[f]]_vars

\* C19 as stated: in overwrite mode taking a target deletes or changes no
\* file that was written earlier in this run for another target with
\* another basename
C19_OverwriteKeepsOthers ==
    [][\A t \in todo :
          (Takes(t) /\ argv.mode = "overwrite" /\ ~argv.cmdOnly)
          => \A f \in DOMAIN files :
                (files[f] \in args.targets /\ files[f] # t
                 /\ NameOf(files[f]) # NameOf(t))
                => (f \in DOMAIN files' /\ files'[f] = files[f])]_vars

\* C20 as stated: whenever the basename of a target is appended to the
\* output-file list, the command script <basename>.sh of that target is
\* on disk, retries included
C20_ScriptOfEveryListedTarget ==
    [][outFiles' = Append(outFiles, fileName)
       => /\ (fileName \o Sh) \in DOMAIN files'
          /\ files'[fileName \o Sh] = target]_vars

\* C21 as stated: with skip mode, a run started in a directory that holds
\* the target list and output files of an earlier run is not aborted over
\* them: from main it goes on to runTestssl, and it ends there only when
\* the operator interrupts
C21_SkipRunGoesOn ==
    [][(pc = "main" /\ argv.mode = "skip" /\ ~argv.cmdOnly
        /\ targetsFile.state = "old" /\ files # NoFiles)
       => (pc' = "runTestssl" \/ exit'.msg = "Terminated by user")]_vars

\* C22: a command-only run leaves the disk and the process table alone,
\* whatever the other flags: no directory or file is created, written or
\* deleted (existing output under -o and the target list included), no
\* testssl or aha process is started, zipDir is not entered, and while
\* runTestssl goes through the targets exactly one command line has been
\* printed for each target it has passed, so one per target at its end
C22_CommandOnlyHasNoEffect ==
    [][argv.cmdOnly
       => /\ UNCHANGED diskVars
          /\ ~procAlive' /\ attempt' = 0 /\ aha' = "none"
          /\ ~(Scanning \/ Zipping)'
          /\ outFiles' = <<>>
          /\ pc = "loop"
             => /\ {stdout'[i].target : i \in DOMAIN stdout'} = args.targets \ todo'
                /\ Len(stdout') = Cardinality(args.targets \ todo')
          /\ (pc = "loop" /\ pc' = "exit" /\ exit'.code = 0)
             => (todo = {} /\ Len(stdout) = Cardinality(args.targets))]_vars

\* C22 witness: a command-only run with -o and -z has ended in a directory
\* that holds output for one of its two targets and a target list
C22_Witness ==
    /\ pc = "exit" /\ exit.code = 0 /\ argv.cmdOnly
    /\ argv.mode = "overwrite" /\ AnyZip(argv)
    /\ Len(stdout) = 2 /\ Cardinality(args.targets) = 2
    /\ \E t \in args.targets : ExistingOutput(t) # {}
    /\ targetsFile.state = "old" /\ zipFile = NoZip /\ dirState = "dir"

====
